---- MODULE Spec2Model ----
(***************************************************************************)
(* State-machine model of PI_SimBrief2Zibo.py: the PythonInterface         *)
(* controller (loopCallback and the widget callbacks), the Async thread    *)
(* wrapper, and the SimBrief / Atis worker tasks with get_from_url.        *)
(*                                                                         *)
(* Python's None / False / {} are modelled by values of the same shape as  *)
(* the truthy values of the field: request id None is NoneRid, an unset    *)
(* pilot id is 0, an empty fp_info is NoInfo, a missing Async is 0.        *)
(***************************************************************************)
EXTENDS Integers, FiniteSets, Sequences, TLC

----------------------------------------------------------------------------
(* Bounds of the model *)

\* Async objects of one kind that can exist at the same time
NThreads == 2
\* pilot ids a user can save: 1..MaxPilotId
MaxPilotId == 2
\* OFP releases the provider can hand out: versions 1..MaxOfp
MaxOfp == 2
\* words in a layout tag, lines in a report body, fixes in a navigation log,
\* digits of a temperature deviation
MaxWords == 2
MaxLines == 3
MaxFixes == 2
MaxIsa == 1
\* the largest magnitude of a deviation written to the artifact, digits in a
\* weight, files in the route folder, and the day of the call (creation times
\* are the days 0..MaxDay)
MaxDeviation == 1000
MaxDigits == 4
MaxFiles == 2
MaxDay == 3

(* Program constants *)
DEFAULT_SCHEDULE == 15
DAYS == 2
HTTP_TIMEOUT == 5
START_SCHEDULE == 3

----------------------------------------------------------------------------
(* Values *)

ThreadIds == 1..NThreads
PilotIds == 1..MaxPilotId
Versions == 1..MaxOfp

\* request ids are opaque tokens; the provider's token names the pilot's OFP release
NoneRid == <<0, 0>>
Rid(p, n) == <<p, n>>

\* fp_info: the trip summary of one OFP, or empty
NoInfo == [ofp |-> NoneRid]
Info(rid) == [ofp |-> rid]

\* aircraft model paths xp.getNthAircraftModel can return
AcfPaths == {"B737-800X", "C172"}

\* next((p[0] for p in AIRCRAFTS if p[1] in self.acf_path), None)
AIRCRAFTS(path) ==
    CASE path = "B737-800X" -> "Zibo"
      [] path = "LevelUp" -> "LevelUp"
      [] OTHER -> "False"

Gears == 1..3
Engines == 1..2

\* a sensor snapshot: the gear on_ground and engine_is_burning_fuel readings
Snapshots == [gears : [Gears -> BOOLEAN], engines : [Engines -> BOOLEAN]]

\* the provider document as process() finds it
DocKinds == {"ok", "empty_body", "bad_xml", "no_icao", "parse_err", "info_err"}
NoDoc == [rid |-> NoneRid, kind |-> "none"]

\* what iterdir() finds of the flight's route files in the "FMS plans" folder: none,
\* one created within DAYS, or only older ones
DirStates == {"none", "recent", "old"}

\* the result slot of an Async: the placeholder, an exception, or the dict
NoResult ==
    [kind |-> "unset", error |-> "none", request_id |-> NoneRid,
     message |-> "None", fp_info |-> NoInfo, atis |-> "None"]
ExcResult == [NoResult EXCEPT !.kind = "exc"]
DictResult(error, rid, message, info) ==
    [kind |-> "dict", error |-> error, request_id |-> rid,
     message |-> message, fp_info |-> info, atis |-> "None"]
AtisResult(error, atis) ==
    [kind |-> "dict", error |-> error, request_id |-> NoneRid,
     message |-> "None", fp_info |-> NoInfo, atis |-> atis]

\* an Async object: pc "free" is an object that does not exist
FreeThread ==
    [pc |-> "free", pilot |-> 0, rid |-> NoneRid, icao |-> "none",
     timeout |-> 0, doc |-> NoDoc, coroute_filename |-> "None", fs_ops |-> {},
     result |-> NoResult]

----------------------------------------------------------------------------
VARIABLES
    \* PythonInterface fields
    acf_path, aircraft, pilot_id, async_task, request_id, fp_info,
    flight_started, fp_checked, details_message, loop_schedule, details,
    \* Async objects running SimBrief.run
    tasks,
    \* PythonInterface fields of the D-ATIS widget, and the Async objects running
    \* Atis.run
    datis, datis_request, async_datis, datis_message, datis_content, datis_tasks,
    \* the provider and the disk have settled: every SimBrief call from now on
    \* succeeds and finds a new OFP
    settled,
    \* observation of the control thread: it called join() on a live thread
    blocked,
    \* a function of the plugin called on its own: its argument and what it gave
    arg, ret

ctl == <<acf_path, aircraft, pilot_id, async_task, request_id, fp_info,
         flight_started, fp_checked, details_message, loop_schedule, details>>
dvars == <<datis, datis_request, async_datis, datis_message, datis_content,
           datis_tasks>>
pvars == <<arg, ret>>

vars == <<ctl, tasks, dvars, settled, blocked, pvars>>

----------------------------------------------------------------------------
(* Async: the thread wrapper *)

\* is_alive staying true after run() returned
pending_stale(t) == t.pc # "free"

\* Async.pending = threading.Thread.is_alive
pending(t) == t.pc \notin {"free", "done"}

\* Async.__init__ followed by start(): the thread enters get_from_url of its query
NewThread(p, rid, icao) ==
    [FreeThread EXCEPT !.pc = "query_https", !.pilot = p, !.rid = rid, !.icao = icao]

\* run() without the except clause: an exception ends the thread with no result
AsyncRun_uncaught(t, raised, value) ==
    [t EXCEPT !.pc = "done", !.timeout = 0, !.pilot = 0, !.doc.kind = "none",
              !.result = IF raised THEN NoResult ELSE value]

\* Async.run: the task's return value, or the exception it raised, goes into
\* result; the arguments and the parsed document are not read again
AsyncRun(t, raised, value) ==
    [t EXCEPT !.pc = "done", !.timeout = 0,
              !.pilot = 0, !.doc = [@ EXCEPT !.kind = "none"],
              !.result = IF raised THEN ExcResult ELSE value]

----------------------------------------------------------------------------
(* get_from_url *)

\* what requests.get(url, verify=True) can do when the remote end answers
HttpsOutcomes ==
    IF settled THEN {"200"}
    ELSE {"200", "204", "400", "500", "ssl", "conn", "exc"}

\* what requests.get(link, verify=False, timeout=5) can do
HttpOutcomes ==
    IF settled THEN {"200"}
    ELSE {"200", "500", "timeout"}

\* the (response, error) pair get_from_url returns for an outcome of a request
get_from_url(o) ==
    CASE o = "200" -> [response |-> TRUE, error |-> "none"]
      [] o \in {"204", "400", "500"} -> [response |-> TRUE, error |-> o]
      [] OTHER -> [response |-> FALSE, error |-> o]

----------------------------------------------------------------------------
(* SimBrief: one acquisition cycle *)

\* what the folder and the disk do to the steps after the query
Choices ==
    IF settled
    THEN [dir : DirStates, fms : {"ok"}, aug : {"none", "ok"}, xml : {"ok"}]
    ELSE [dir : DirStates \cup {"raise"}, fms : {"ok", "fail"},
          aug : {"none", "ok", "raise"}, xml : {"ok", "fail"}]

\* request ids are compared for equality only: the provider serves the release
\* the task was started with, or another one
OtherVersion(t) == IF t.rid[1] = t.pilot THEN (t.rid[2] % MaxOfp) + 1 ELSE 1

\* the documents the provider can serve to a task: the release, and its shape
Docs(t) ==
    IF settled
    THEN {[rid |-> Rid(t.pilot, OtherVersion(t)), kind |-> "ok"]}
    ELSE [rid : {Rid(t.pilot, OtherVersion(t))}
                \cup (IF t.rid[1] = t.pilot THEN {t.rid} ELSE {}),
          kind : DocKinds]

\* SimBrief.run's result dict from the fields of s
RunResult(t, error, rid, message, info) ==
    AsyncRun(t, FALSE, DictResult(error, rid, message, info))

\* create_xml_file reporting success without having written the file
CreateXml_unwritten(t, c) ==
    RunResult(t, "none", t.doc.rid, "All set!", Info(t.doc.rid))

\* create_xml_file and the rest of process()
CreateXml(t, c) ==
    LET new == t.doc.rid IN
    IF c.xml = "ok"
    THEN LET w == [t EXCEPT !.fs_ops = @ \cup {"write_xml"}] IN
         IF t.doc.kind = "info_err"
         THEN AsyncRun(w, TRUE, NoResult)
         ELSE RunResult(w, "none", new, "All set!", Info(new))
    ELSE RunResult(t, "xml_write", new, "Error writing b738x.xml", NoInfo)

\* process(), from parse_ofp on: fp_filename is known, the new request id is taken
Compose(t0, fname, c) ==
    LET t == [t0 EXCEPT !.coroute_filename = fname] IN
    IF t.doc.kind = "parse_err"
    THEN AsyncRun(t, TRUE, NoResult)
    ELSE CreateXml(t, c)

\* process() going on after download() failed
AfterDownload_goes_on(t, r, c) ==
    IF r.error # "none" \/ c.fms # "ok"
    THEN Compose(t, "download", c)
    ELSE Compose([t EXCEPT !.fs_ops = @ \cup {"write_fms"}], "download", c)

\* download() and the rest of find_or_retrieve_fp, get_from_url having returned r
AfterDownload(t, r, c) ==
    IF r.error # "none"
    THEN RunResult(t, r.error, t.rid, "Error downloading fms file from SimBrief",
                   NoInfo)
    ELSE IF c.fms # "ok"
    THEN RunResult(t, "fms_write", t.rid, "Error writing FP file", NoInfo)
    ELSE LET w == [t EXCEPT !.fs_ops = @ \cup {"write_fms"}] IN
         CASE c.aug = "none" -> Compose(w, "download", c)
           [] c.aug = "raise" -> AsyncRun(w, TRUE, NoResult)
           [] OTHER -> Compose([w EXCEPT !.fs_ops = @ \cup {"augment"}], "download", c)

\* the comparison of line 212 never succeeds
SameOfp_never(t, d) == FALSE

\* line 212: the response carries the request id the task was started with
SameOfp(t, d) == t.rid = d.rid

\* query() and process() up to the download, get_from_url having returned r and
\* the provider having served the document d
AfterQuery(t0, r, d, c) ==
    IF r.error # "none"
    THEN RunResult(t0, r.error, t0.rid,
                   IF r.error = "400" THEN "Error: is your pilotID correct?"
                   ELSE "Error trying to connect to SimBrief", NoInfo)
    ELSE IF d.kind = "empty_body"
    THEN RunResult(t0, "none", t0.rid, "None", NoInfo)
    ELSE IF d.kind = "bad_xml"
    THEN AsyncRun(t0, TRUE, NoResult)
    ELSE LET t == [t0 EXCEPT !.doc = d] IN
    IF SameOfp(t, d)
    THEN RunResult(t, "none", t.rid, "No new OFP available", NoInfo)
    ELSE IF d.kind = "no_icao"
    THEN RunResult(t, "none", t.rid, "None", NoInfo)
    ELSE IF c.dir = "raise"
    THEN AsyncRun(t, TRUE, NoResult)
    ELSE LET w == [t EXCEPT !.fs_ops = @ \cup {"list"}] IN
         IF c.dir = "recent"
         THEN Compose(w, "found", c)
         ELSE [w EXCEPT !.pc = "dl_https", !.timeout = 0]

\* where get_from_url was called from, and what follows its return
AfterGet(t, r) ==
    IF t.pc \in {"query_https", "query_http"}
    THEN {AfterQuery(t, r, d, c) : d \in Docs(t), c \in Choices}
    ELSE {AfterDownload(t, r, c) : c \in Choices}

\* a refused connection sent to the unverified request as well
AfterHttps_conn_fallback(t, o) ==
    CASE o \in {"ssl", "conn"} ->
           {[t EXCEPT !.pc = IF @ = "query_https" THEN "query_http" ELSE "dl_http",
                      !.timeout = HTTP_TIMEOUT]}
      [] o = "exc" -> {AsyncRun(t, TRUE, NoResult)}
      [] OTHER -> AfterGet(t, get_from_url(o))

\* requests.get(url, verify=True) ends with outcome o: what the thread does next
AfterHttps(t, o) ==
    CASE o = "ssl" ->
           {[t EXCEPT !.pc = IF @ = "query_https" THEN "query_http" ELSE "dl_http",
                      !.timeout = HTTP_TIMEOUT]}
      [] o = "exc" -> {AsyncRun(t, TRUE, NoResult)}
      [] OTHER -> AfterGet(t, get_from_url(o))

\* a worker writing its message into the controller itself
WorkerHttps_direct(i) ==
    /\ tasks[i].pc \in {"query_https", "dl_https"}
    /\ \E t \in UNION {AfterHttps(tasks[i], o) : o \in HttpsOutcomes} :
          /\ tasks' = [tasks EXCEPT ![i] = t]
          /\ details_message' = t.result.message
    /\ UNCHANGED <<acf_path, aircraft, pilot_id, async_task, request_id, fp_info,
                   flight_started, fp_checked, loop_schedule, details, dvars,
                   settled, pvars, blocked>>

\* a thread blocked in requests.get(url, verify=True) gets its answer
WorkerHttps(i) ==
    /\ tasks[i].pc \in {"query_https", "dl_https"}
    /\ \E t \in UNION {AfterHttps(tasks[i], o) : o \in HttpsOutcomes} :
          tasks' = [tasks EXCEPT ![i] = t]
    /\ UNCHANGED <<ctl, dvars, settled, pvars, blocked>>

\* a thread in the fallback requests.get(link, verify=False, timeout=5) gets its
\* answer, or the timeout
WorkerHttp(i) ==
    /\ tasks[i].pc \in {"query_http", "dl_http"}
    /\ \E t \in UNION {AfterGet(tasks[i], get_from_url(o)) : o \in HttpOutcomes} :
          tasks' = [tasks EXCEPT ![i] = t]
    /\ UNCHANGED <<ctl, dvars, settled, pvars, blocked>>

----------------------------------------------------------------------------
(* PythonInterface: sensors and aircraft detection *)

\* engines_started: any(engine_is_burning_fuel[0:2])
engines_started(s) == \E e \in Engines : s.engines[e]

\* on_ground asking for every gear
on_ground_all(s) == \A g \in Gears : s.gears[g]

\* on_ground: any(gear on_ground[0:3])
on_ground(s) == \E g \in Gears : s.gears[g]

at_gate(s) == on_ground(s) /\ ~engines_started(s)

\* check_aircraft with the model path p loaded: the fields it leaves behind (a
\* message of None is taken not to contain 'not detected')
check_aircraft(p) ==
    IF p # acf_path
    THEN [acf_path |-> p,
          aircraft |-> AIRCRAFTS(p),
          message |-> IF /\ AIRCRAFTS(p) # "False"
                         /\ details_message = "Aircraft not detected"
                      THEN IF AIRCRAFTS(p) = "Zibo" THEN "Zibo detected"
                           ELSE "LevelUp detected"
                      ELSE details_message]
    ELSE [acf_path |-> acf_path, aircraft |-> aircraft, message |-> details_message]

\* aircraft_detected, after check_aircraft
aircraft_detected(p) == check_aircraft(p).aircraft # "False"

----------------------------------------------------------------------------
(* PythonInterface.loopCallback *)

\* line 1154 without the pilot id
Configured_no_pilot(p) == aircraft_detected(p)

\* line 1154
Configured(p) == aircraft_detected(p) /\ pilot_id # 0

\* line 1156 without the fp_checked test
CheckFp_gate(gate) == gate

\* line 1156
CheckFp(gate) == ~fp_checked /\ gate

\* line 1158 never seeing the held task
TaskHeld_never == FALSE

\* line 1158: a SimBrief async instance was already started
TaskHeld == async_task # 0

\* line 1160 not asking pending()
JobEnded_always == TRUE

\* line 1160: the job ended
JobEnded == ~pending(tasks[async_task])

\* line 1197 seeing the flight start only once the OFP is checked
LeavesGate_checked(gate) == ~flight_started /\ fp_checked /\ ~gate

\* line 1197: not at the gate with no flight started
LeavesGate(gate) == ~flight_started /\ ~gate

\* line 1170 never finding fp_info in the result
AcceptsNew_never(res) == FALSE

\* lines 1170-1176: the outcome has no error and carries trip info
AcceptsNew(res) == res.error = "none" /\ res.fp_info # NoInfo

\* an outcome without trip info never taken as a confirmation of the cached one
KeepsCached_never(res) == FALSE

\* an outcome without trip info taken as a confirmation with nothing cached
KeepsCached_uncached(res) == res.error = "none" /\ res.fp_info = NoInfo

\* lines 1177-1179: no error, no trip info in the outcome, trip info cached
KeepsCached(res) == res.error = "none" /\ res.fp_info = NoInfo /\ fp_info # NoInfo

\* the tick that finds the job ended starting the next one at once
JoinTask_restart(msg) ==
    /\ details_message' = "starting SimBrief query ..."
    /\ tasks' = [tasks EXCEPT ![async_task] = NewThread(pilot_id, request_id, "none")]
    /\ loop_schedule' = START_SCHEDULE
    /\ UNCHANGED <<request_id, fp_info, fp_checked, async_task, blocked>>

\* lines 1162-1182: join the finished task, apply its outcome, release it
JoinTask(msg) ==
    LET res == tasks[async_task].result IN
    /\ blocked' = (blocked \/ pending(tasks[async_task]))
    /\ IF pending(tasks[async_task])
       THEN /\ details_message' = msg
            /\ UNCHANGED <<request_id, fp_info, fp_checked, async_task,
                           loop_schedule, tasks>>
       ELSE /\ IF res.kind = "exc"
               THEN /\ details_message' = "An unknown error occurred"
                    /\ UNCHANGED <<request_id, fp_info, fp_checked>>
               ELSE /\ details_message' = res.message
                    /\ IF AcceptsNew(res)
                       THEN /\ request_id' = res.request_id
                            /\ fp_info' = res.fp_info
                            /\ fp_checked' = TRUE
                       ELSE /\ fp_checked' = (fp_checked \/ KeepsCached(res))
                            /\ UNCHANGED <<request_id, fp_info>>
            /\ async_task' = 0
            /\ tasks' = [tasks EXCEPT ![async_task] = FreeThread]
            /\ loop_schedule' = DEFAULT_SCHEDULE

\* the task started without the request id the controller holds
StartTask_no_request_id ==
    /\ \E i \in ThreadIds :
          /\ tasks[i].pc = "free"
          /\ \A j \in ThreadIds : tasks[j].pc = "free" => i <= j
          /\ tasks' = [tasks EXCEPT ![i] = NewThread(pilot_id, NoneRid, "none")]
          /\ async_task' = i
    /\ details_message' = "starting SimBrief query ..."
    /\ loop_schedule' = START_SCHEDULE
    /\ UNCHANGED <<request_id, fp_info, fp_checked, blocked>>

\* lines 1188-1196: start an Async running SimBrief.run
StartTask ==
    /\ \E i \in ThreadIds :
          /\ tasks[i].pc = "free"
          /\ \A j \in ThreadIds : tasks[j].pc = "free" => i <= j
          /\ tasks' = [tasks EXCEPT ![i] = NewThread(pilot_id, request_id, "none")]
          /\ async_task' = i
    /\ details_message' = "starting SimBrief query ..."
    /\ loop_schedule' = START_SCHEDULE
    /\ UNCHANGED <<request_id, fp_info, fp_checked, blocked>>

\* one tick: p is the aircraft model loaded, gate what at_gate reads
loopCallback(p, gate) ==
    LET ca == check_aircraft(p) IN
    /\ acf_path' = ca.acf_path
    /\ aircraft' = ca.aircraft
    /\ IF Configured(p)
       THEN IF ~flight_started
            THEN IF CheckFp(gate)
                 THEN /\ IF TaskHeld
                         THEN IF JobEnded
                              THEN JoinTask(ca.message)
                              ELSE /\ details_message' = ca.message
                                   /\ UNCHANGED <<request_id, fp_info, fp_checked,
                                                  async_task, loop_schedule, tasks,
                                                  blocked>>
                         ELSE StartTask
                      /\ UNCHANGED flight_started
                 ELSE IF LeavesGate(gate)
                 THEN /\ flight_started' = TRUE
                      /\ details_message' = "Have a nice flight!"
                      /\ loop_schedule' = DEFAULT_SCHEDULE * 10
                      /\ UNCHANGED <<request_id, fp_info, fp_checked, async_task,
                                     tasks, blocked>>
                 ELSE /\ details_message' = ca.message
                      /\ UNCHANGED <<request_id, fp_info, fp_checked, async_task,
                                     tasks, blocked, flight_started, loop_schedule>>
            ELSE IF gate
            THEN /\ flight_started' = FALSE
                 /\ fp_checked' = FALSE
                 /\ fp_info' = NoInfo
                 /\ details_message' = "Looking for a new OFP ..."
                 /\ loop_schedule' = DEFAULT_SCHEDULE
                 /\ UNCHANGED <<request_id, async_task, tasks, blocked>>
            ELSE /\ details_message' = ca.message
                 /\ UNCHANGED <<request_id, fp_info, fp_checked, async_task,
                                tasks, blocked, flight_started, loop_schedule>>
       ELSE /\ details_message' = IF ~aircraft_detected(p)
                                  THEN "Aircraft not detected"
                                  ELSE "SimBrief PilotID required"
            /\ loop_schedule' = DEFAULT_SCHEDULE * 5
            /\ UNCHANGED <<request_id, fp_info, fp_checked, async_task,
                           tasks, blocked, flight_started>>
    /\ UNCHANGED <<pilot_id, details, dvars, settled, pvars>>

----------------------------------------------------------------------------
(* PythonInterface: the details widget and the reload command *)

\* main_menu_callback(1) / detailsWindowToggle: create_details_window
create_details_window ==
    /\ ~details
    /\ details' = TRUE
    /\ UNCHANGED <<acf_path, aircraft, pilot_id, async_task, request_id, fp_info,
                   flight_started, fp_checked, details_message, loop_schedule,
                   tasks, dvars, settled, pvars, blocked>>

\* what the user can have typed into pilot_id_input: -1 stands for a text that
\* is not a number
PilotInputs == {-1, 0} \cup PilotIds

\* save_settings followed by load_settings
save_settings(user_id) ==
    IF user_id < 0
    THEN /\ details_message' = "pilotID has to be a number"
         /\ UNCHANGED pilot_id
    ELSE /\ pilot_id' = user_id
         /\ details_message' = "settings saved"

\* detailsWidgetHandler for a message: "other", or a pushed button
detailsWidgetHandler(button, user_id, p) ==
    LET ca == check_aircraft(p) IN
    /\ details
    /\ acf_path' = ca.acf_path
    /\ aircraft' = ca.aircraft
    /\ CASE button = "save" ->
              /\ pilot_id = 0
              /\ save_settings(user_id)
              /\ UNCHANGED fp_checked
         [] button = "edit" ->
              /\ pilot_id # 0
              /\ pilot_id' = 0
              /\ details_message' = ca.message
              /\ UNCHANGED fp_checked
         [] button = "reload" ->
              /\ fp_checked /\ ~flight_started
              /\ fp_checked' = FALSE
              /\ details_message' = "OFP reload requested"
              /\ UNCHANGED pilot_id
         [] OTHER ->
              /\ details_message' = ca.message
              /\ UNCHANGED <<pilot_id, fp_checked>>
    /\ UNCHANGED <<async_task, request_id, fp_info, flight_started, loop_schedule,
                   details, tasks, dvars, settled, pvars, blocked>>

\* the reload_simbrief_ofp command
OFPReload(p) ==
    LET ca == check_aircraft(p) IN
    /\ acf_path' = ca.acf_path
    /\ aircraft' = ca.aircraft
    /\ IF aircraft_detected(p) /\ fp_checked
       THEN /\ details_message' = "OFP reload requested"
            /\ fp_checked' = FALSE
       ELSE /\ details_message' = ca.message
            /\ UNCHANGED fp_checked
    /\ UNCHANGED <<pilot_id, async_task, request_id, fp_info, flight_started,
                   loop_schedule, details, tasks, dvars, settled, pvars, blocked>>

----------------------------------------------------------------------------
(* Atis: one D-ATIS query *)

\* the text of the D-ATIS info line, and the ICAO it names
NoDatisMessage == [text |-> "", icao |-> "none"]
DatisMessage(text, icao) == [text |-> text, icao |-> icao]

\* the pages the D-ATIS server can serve
AtisPages == {"atis", "no_marker", "empty_body"}

\* Atis.run, get_from_url having returned r and the server the page
AtisAfterGet(t, r, page) ==
    IF r.error # "none"
    THEN AsyncRun(t, FALSE, AtisResult(r.error, "None"))
    ELSE CASE page = "empty_body" -> AsyncRun(t, FALSE, AtisResult("none", "None"))
           [] page = "no_marker" ->
                AsyncRun(t, FALSE, AtisResult("none", "D-ATIS not available"))
           [] OTHER -> AsyncRun(t, FALSE, AtisResult("none", "atis-text"))

\* a D-ATIS thread blocked in requests.get(url, verify=True) gets its answer
AtisHttps(i) ==
    /\ datis_tasks[i].pc = "query_https"
    /\ \E o \in {"200", "500", "ssl", "conn", "exc"}, page \in AtisPages :
          datis_tasks' =
             [datis_tasks EXCEPT ![i] =
                 CASE o = "ssl" -> [@ EXCEPT !.pc = "query_http",
                                             !.timeout = HTTP_TIMEOUT]
                   [] o = "exc" -> AsyncRun(@, TRUE, NoResult)
                   [] OTHER -> AtisAfterGet(@, get_from_url(o), page)]
    /\ UNCHANGED <<ctl, tasks, datis, datis_request, async_datis, datis_message,
                   datis_content, settled, pvars, blocked>>

\* a D-ATIS thread in the fallback request gets its answer, or the timeout
AtisHttp(i) ==
    /\ datis_tasks[i].pc = "query_http"
    /\ \E o \in {"200", "500", "timeout"}, page \in AtisPages :
          datis_tasks' =
             [datis_tasks EXCEPT ![i] = AtisAfterGet(@, get_from_url(o), page)]
    /\ UNCHANGED <<ctl, tasks, datis, datis_request, async_datis, datis_message,
                   datis_content, settled, pvars, blocked>>

----------------------------------------------------------------------------
(* PythonInterface: the D-ATIS widget *)

\* line 929: a D-ATIS async instance was already started
DatisHeld == async_datis # 0

\* line 931: the job ended
DatisEnded == ~pending(datis_tasks[async_datis])

\* lines 1110-1117: a pushed ORIG / DEST button sets datis_request to the ICAO of
\* fp_info, at the end of the handler
Pressed(button, request) == IF button = "other" THEN request ELSE button

\* lines 933-955: join the finished D-ATIS task, show its outcome, release it
JoinDatis(button) ==
    LET res == datis_tasks[async_datis].result IN
    /\ blocked' = (blocked \/ pending(datis_tasks[async_datis]))
    /\ IF pending(datis_tasks[async_datis])
       THEN /\ datis_request' = Pressed(button, datis_request)
            /\ UNCHANGED <<datis_message, datis_content, async_datis, datis_tasks>>
       ELSE /\ CASE res.kind = "exc" ->
                      /\ datis_message' =
                            DatisMessage("An unknown error occurred", "none")
                      /\ UNCHANGED datis_content
                 [] res.kind # "exc" /\ res.error # "none" ->
                      /\ datis_message' = DatisMessage("Error retrieving D-ATIS", "none")
                      /\ UNCHANGED datis_content
                 [] res.kind # "exc" /\ res.error = "none"
                       /\ res.atis = "D-ATIS not available" ->
                      /\ datis_message' =
                            DatisMessage("D-ATIS not available for",
                                         datis_tasks[async_datis].icao)
                      /\ UNCHANGED datis_content
                 [] res.kind # "exc" /\ res.error = "none" /\ res.atis = "atis-text" ->
                      /\ datis_message' = DatisMessage("D-ATIS:", datis_request)
                      /\ datis_content' = datis_tasks[async_datis].icao
                 [] OTHER -> UNCHANGED <<datis_message, datis_content>>
            /\ async_datis' = 0
            /\ datis_request' = Pressed(button, "False")
            /\ datis_tasks' = [datis_tasks EXCEPT ![async_datis] = FreeThread]

\* lines 961-968: start an Async running Atis.run
StartDatis(button) ==
    /\ datis_content' = "none"
    /\ datis_message' = DatisMessage("Starting D-ATIS query ...", "none")
    /\ \E i \in ThreadIds :
          /\ datis_tasks[i].pc = "free"
          /\ \A j \in ThreadIds : datis_tasks[j].pc = "free" => i <= j
          /\ datis_tasks' = [datis_tasks EXCEPT ![i] = NewThread(0, NoneRid, datis_request)]
          /\ async_datis' = i
    /\ datis_request' = Pressed(button, datis_request)
    /\ UNCHANGED blocked

\* check_datis_request, inside a handler call for the given button
check_datis_request(button) ==
    IF DatisHeld
    THEN IF DatisEnded
         THEN JoinDatis(button)
         ELSE /\ datis_request' = Pressed(button, datis_request)
              /\ UNCHANGED <<datis_message, datis_content, async_datis,
                             datis_tasks, blocked>>
    ELSE StartDatis(button)

\* main_menu_callback(2) / datisWindowToggle: create_datis_window
create_datis_window ==
    /\ ~datis
    /\ datis' = TRUE
    /\ UNCHANGED <<ctl, tasks, datis_request, async_datis, datis_message,
                   datis_content, datis_tasks, settled, pvars, blocked>>

\* datisWidgetHandler for a message: "other", or the ORIG / DEST button pushed
datisWidgetHandler(button, p) ==
    LET ca == check_aircraft(p)
        shown == aircraft_detected(p) /\ fp_info # NoInfo
    IN
    /\ datis
    /\ button # "other" => fp_info # NoInfo
    /\ acf_path' = ca.acf_path
    /\ aircraft' = ca.aircraft
    /\ details_message' = ca.message
    /\ IF shown /\ datis_request # "False"
       THEN check_datis_request(button)
       ELSE /\ datis_request' = Pressed(button, datis_request)
            /\ UNCHANGED <<datis_message, datis_content, async_datis, datis_tasks,
                           blocked>>
    /\ UNCHANGED <<pilot_id, async_task, request_id, fp_info, flight_started,
                   fp_checked, loop_schedule, details, tasks, datis, settled, pvars>>

----------------------------------------------------------------------------
(* parse_ofp and extract_descent_winds *)

\* the words a layout tag is made of; a tag is a sequence of them, and a code is
\* in the tag when it is one of its words
Carriers == {"RYR", "LIDO", "THY", "ACA"}
LayoutWords == Carriers \cup {"UAL 2018", "DAL", "SWA", "KLM", "AAL"}
Layouts == UNION {[1..n -> LayoutWords] : n \in 1..MaxWords}
Contains(layout, code) == \E k \in 1..Len(layout) : layout[k] = code

\* the lines of plan_html: the heading and the sentinel the tag's family looks
\* for, a wind row, the wind row of FL100, any other line
BodyLines == {"head", "end", "row", "fl100", "text"}
Bodies == UNION {[1..n -> BodyLines] : n \in 0..MaxLines}

\* the text of an integer element: a sign, digits, or something int() rejects
IsaTexts ==
    {[sign |-> sg, digits |-> n, valid |-> TRUE] : sg \in {"", "+", "-"}, n \in 0..MaxIsa}
        \cup {[sign |-> "", digits |-> 0, valid |-> FALSE]}

\* int(text)
int(text) == IF text.sign = "-" THEN 0 - text.digits ELSE text.digits

\* the fixes of the navigation log; "dest" is the destination's icao_code
Fixes == [ident : {"dest", "wpt"}, oat_isa_dev : IsaTexts]
Navlogs == UNION {[1..n -> Fixes] : n \in 0..MaxFixes}

\* the position of the first line m of a text, 0 when there is none
First(text, m) ==
    IF \E k \in 1..Len(text) : text[k] = m
    THEN CHOOSE k \in 1..Len(text) : text[k] = m /\ \A j \in 1..(k - 1) : text[j] # m
    ELSE 0

\* text.split(m)[0]: what comes before the first m, all of it when there is none
SplitFirst(text, m) ==
    IF First(text, m) = 0 THEN text ELSE SubSeq(text, 1, First(text, m) - 1)

\* text.split(m)[1]: what lies between the first m and the next one; only asked
\* for when there is an m
SplitSecond(text, m) ==
    SplitFirst(SubSeq(text, First(text, m) + 1, Len(text)), m)

\* list[:n]
Take(list, n) == SubSeq(list, 1, IF Len(list) < n THEN Len(list) ELSE n)

\* what a function gave: an exception, or its value
NoRet ==
    [done |-> FALSE, raised |-> FALSE, at_gate |-> FALSE, dest_isa |-> 0, winds |-> <<>>,
     text |-> <<>>, file |-> <<>>, target |-> <<>>, ops |-> <<>>]
Raised == [NoRet EXCEPT !.done = TRUE, !.raised = TRUE]
Winds(w) == [NoRet EXCEPT !.done = TRUE, !.winds = w]

\* line 502: the tag holds one of the four codes
FamilyA(layout) == \E code \in Carriers : Contains(layout, code)

\* the four names looked for inside the tag
IsLayout_inside(layout, name) == Contains(layout, name)

\* lines 506, 514, 520, 532: the tag is this name
IsLayout(layout, name) == layout = <<name>>

\* the default of lines 536-539
NoWinds == [k \in 1..5 |-> ""]

\* lines 496-540; source.split(heading)[1] raises IndexError without a heading,
\* and list.index("10000") raises ValueError without that row
extract_descent_winds(source, layout) ==
    LET text == SplitFirst(SplitSecond(source, "head"), "end") IN
    IF FamilyA(layout)
    THEN IF First(source, "head") = 0 THEN Raised ELSE Winds(text)
    ELSE IF IsLayout(layout, "UAL 2018")
    THEN IF First(source, "head") = 0 THEN Raised ELSE Winds(Take(text, 4))
    ELSE IF IsLayout(layout, "DAL")
    THEN IF First(source, "head") = 0 \/ First(text, "fl100") = 0
         THEN Raised
         ELSE Winds(Take(text, First(text, "fl100")))
    ELSE IF IsLayout(layout, "SWA")
    THEN IF First(source, "head") = 0 THEN Raised ELSE Winds(text)
    ELSE IF IsLayout(layout, "KLM")
    THEN IF First(source, "head") = 0 THEN Raised ELSE Winds(Take(text, 3))
    ELSE Winds(NoWinds)

\* the first fix taken for the last
LastFix_first(navlog) == navlog[1]

\* line 253: findall('fix')[-1]
LastFix(navlog) == navlog[Len(navlog)]

\* lines 254-258: the text dest_isa is read from
IsaSource(ofp) ==
    IF LastFix(ofp.navlog).ident = "dest"
    THEN LastFix(ofp.navlog).oat_isa_dev
    ELSE ofp.avg_temp_dev

\* lines 248-265
parse_ofp(ofp) ==
    IF Len(ofp.navlog) = 0 \/ ~IsaSource(ofp).valid
    THEN Raised
    ELSE LET w == extract_descent_winds(ofp.body, ofp.layout) IN
         IF w.raised THEN Raised ELSE [w EXCEPT !.dest_isa = int(IsaSource(ofp))]

\* the calls looked at on their own
NoArg ==
    [fn |-> "none", snapshot |-> [gears |-> [g \in Gears |-> FALSE],
                                  engines |-> [e \in Engines |-> FALSE]],
     layout |-> <<"AAL">>, body |-> <<>>, navlog |-> <<>>,
     avg_temp_dev |-> [sign |-> "", digits |-> 0, valid |-> TRUE],
     dest_isa |-> 0, weight |-> <<>>, unit |-> "", folder |-> <<>>, icao |-> TRUE,
     download |-> "ok", inserted |-> <<>>, procs |-> FALSE]

AtGateArgs == {[NoArg EXCEPT !.fn = "at_gate", !.snapshot = sn] : sn \in Snapshots}

WindArgs ==
    {[NoArg EXCEPT !.fn = "parse_ofp", !.layout = l, !.body = b,
                   !.navlog = <<[ident |-> "dest", oat_isa_dev |-> NoArg.avg_temp_dev]>>] :
        l \in Layouts, b \in Bodies}

IsaArgs ==
    {[NoArg EXCEPT !.fn = "parse_ofp", !.navlog = n, !.avg_temp_dev = a] :
        n \in Navlogs, a \in IsaTexts}

CallAtGate ==
    /\ arg.fn = "at_gate" /\ ~ret.done
    /\ ret' = [NoRet EXCEPT !.done = TRUE, !.at_gate = at_gate(arg.snapshot)]
    /\ UNCHANGED <<ctl, tasks, dvars, settled, blocked, arg>>

CallParseOfp ==
    /\ arg.fn = "parse_ofp" /\ ~ret.done
    /\ ret' = parse_ofp(arg)
    /\ UNCHANGED <<ctl, tasks, dvars, settled, blocked, arg>>

----------------------------------------------------------------------------
(* create_xml_file's ISA line, weight_transform, find_or_retrieve_fp *)

\* a string is the sequence of its characters; a fixed piece of text is one item
DigitChars == <<"0", "1", "2", "3", "4", "5", "6", "7", "8", "9">>
DigitValue(ch) == (CHOOSE d \in 1..10 : DigitChars[d] = ch) - 1

\* v.isdigit()
isdigit(v) == Len(v) > 0 /\ \A k \in 1..Len(v) : \E d \in 1..10 : DigitChars[d] = v[k]

\* int(v) of a string of digits
RECURSIVE IntOf(_)
IntOf(v) ==
    IF Len(v) = 0 THEN 0
    ELSE 10 * IntOf(SubSeq(v, 1, Len(v) - 1)) + DigitValue(v[Len(v)])

\* str(n), the text an f-string writes for an integer
RECURSIVE str(_)
str(n) ==
    IF n < 0 THEN <<"-">> \o str(0 - n)
    ELSE IF n < 10 THEN <<DigitChars[n + 1]>>
    ELSE Append(str(n \div 10), DigitChars[(n % 10) + 1])

\* the format 03d applied to the digits of a number that is not negative
RECURSIVE ZeroPad(_, _)
ZeroPad(text, width) ==
    IF Len(text) >= width THEN text ELSE ZeroPad(<<"0">> \o text, width)

abs(n) == IF n < 0 THEN 0 - n ELSE n

\* zero written with the letter of the negative deviations
SignLetter_zero_minus(n) == IF n <= 0 THEN "M" ELSE "P"

\* line 314: 'M' if data['dest_isa'] < 0 else 'P'
SignLetter(n) == IF n < 0 THEN "M" ELSE "P"

\* line 314: the f-string dest_isa of create_xml_file
IsaLine(data) ==
    <<"AVG ISA       ", SignLetter(data.dest_isa)>>
        \o ZeroPad(str(abs(data.dest_isa)), 3) \o <<"\n\n">>

\* string.strip()
RECURSIVE strip(_)
strip(v) ==
    IF Len(v) > 0 /\ v[1] = " " THEN strip(Tail(v))
    ELSE IF Len(v) > 0 /\ v[Len(v)] = " " THEN strip(SubSeq(v, 1, Len(v) - 1))
    ELSE v

\* lines 543-555
str2int(string) ==
    LET v == strip(string) IN
    IF Len(v) = 0 THEN [raised |-> FALSE, value |-> 0]
    ELSE IF isdigit(v) THEN [raised |-> FALSE, value |-> IntOf(v)]
    ELSE IF isdigit(Tail(v)) /\ v[1] \in {"-", "+"}
    THEN [raised |-> FALSE,
          value |-> (IF v[1] = "-" THEN 0 - 1 ELSE 1) * IntOf(Tail(v))]
    ELSE [raised |-> TRUE, value |-> 0]

\* Python's float is the IEEE-754 double.  A double is mant / 2^scale with mant
\* below 2^53; numbers of that size are kept in limbs of 12 bits, the least
\* significant first.
Limb == 4096

\* lines 559-564: the unit written and the double nearest to the literal,
\* 2.205 = 0x11a3d70a3d70a4 / 2^51 and 0.4535 = 0x1d0624dd2f1aa0 / 2^54
Multiplier(unit) ==
    IF unit = "kgs"
    THEN [t |-> "lbs", m |-> <<164, 983, 1802, 2621, 17>>, scale |-> 51]
    ELSE [t |-> "kgs", m |-> <<2720, 753, 1245, 98, 29>>, scale |-> 54]

\* the exact product of the limbs x and a number n below 2^18, two limbs longer
RECURSIVE MulLimbs(_, _, _)
MulLimbs(x, n, carry) ==
    IF Len(x) = 0 THEN <<carry % Limb, carry \div Limb>>
    ELSE <<(Head(x) * n + carry) % Limb>>
             \o MulLimbs(Tail(x), n, (Head(x) * n + carry) \div Limb)

RECURSIVE BitLen(_)
BitLen(n) == IF n = 0 THEN 0 ELSE 1 + BitLen(n \div 2)

\* the significant bits of a number in limbs
Bits(x) ==
    IF \A k \in 1..Len(x) : x[k] = 0 THEN 0
    ELSE LET top == CHOOSE k \in 1..Len(x) :
                        x[k] # 0 /\ \A j \in (k + 1)..Len(x) : x[j] = 0
         IN 12 * (top - 1) + BitLen(x[top])

\* n added at limb k, the carry going up
RECURSIVE AddAt(_, _, _)
AddAt(x, k, n) ==
    IF n = 0 \/ k > Len(x) THEN x
    ELSE AddAt([x EXCEPT ![k] = (@ + n) % Limb], k + 1, (x[k] + n) \div Limb)

\* int * float, line 565: the exact product rounded to 53 significant bits, to
\* the nearest and to the even one of two that are as near; the bits dropped
\* lie in the two lowest limbs
FloatMul(m, n) ==
    LET x == MulLimbs(m, n, 0)
        drop == Bits(x) - 53
        low == x[1] + Limb * x[2]
        unit == 2 ^ drop
        rest == low % unit
        up == 2 * rest > unit \/ (2 * rest = unit /\ (low \div unit) % 2 = 1)
        new == IF up THEN low - rest + unit ELSE low - rest
    IN IF drop <= 0 THEN x
       ELSE AddAt([x EXCEPT ![1] = new % Limb, ![2] = (new \div Limb) % Limb],
                  3, new \div (Limb * Limb))

\* the fraction of the double cut off
round_down(x, scale) == (x[5] + Limb * x[6] + Limb * Limb * x[7]) \div (2 ^ (scale - 48))

\* round(x) of a double x / 2^scale: the nearest integer, the even one of two
\* that are as near
round(x, scale) ==
    LET hi == x[5] + Limb * x[6] + Limb * Limb * x[7]
        whole == hi \div (2 ^ (scale - 48))
        frac == hi % (2 ^ (scale - 48))
        half == 2 ^ (scale - 49)
        more == \E k \in 1..4 : x[k] # 0
        up == frac > half \/ (frac = half /\ (more \/ whole % 2 = 1))
    IN IF up THEN whole + 1 ELSE whole

\* lines 558-565
weight_transform(weight, unit) ==
    LET w == str2int(weight)
        c == Multiplier(unit)
        n == round(FloatMul(c.m, abs(w.value)), c.scale)
    IN IF w.raised THEN Raised
       ELSE [NoRet EXCEPT !.done = TRUE,
                          !.text = str(IF w.value < 0 THEN 0 - n ELSE n) \o <<" ", c.t>>]

\* the route folder: the origin and destination of the OFP, and files with a
\* stem (a sequence of pieces of text), a suffix and the day of st_ctime
Origin == "LIRF"
Destination == "EDDM"
Stems == {<<"LIRF", "EDDM">>, <<"LIRF", "EDDM", "01">>, <<"LIRF", "LIPZ">>,
          <<"EDDM", "LIRF">>}
Files == [stem : Stems, suffix : {".fms", ".fmx", ".xml"}, ctime : 0..MaxDay]
Folders ==
    {d \in UNION {[1..n -> Files] : n \in 0..MaxFiles} :
        \A j, k \in 1..Len(d) :
            j # k => (d[j].stem # d[k].stem \/ d[j].suffix # d[k].suffix)}

\* lines 281-288: the files kept; datetime.now() is the day MaxDay
Candidates(folder) ==
    SelectSeq(folder, LAMBDA f : /\ f.suffix \in {".fms", ".fmx"}
                                 /\ f.stem[1] = Origin
                                 /\ Contains(f.stem, Destination)
                                 /\ f.ctime > MaxDay - DAYS)

\* the first file of the list taken
MaxCtime_first(files) == files[1]

\* line 291: max(files, key=lambda x: x.stat().st_ctime), the first of the
\* greatest
MaxCtime(files) ==
    files[CHOOSE k \in 1..Len(files) :
              /\ \A j \in 1..Len(files) : files[j].ctime <= files[k].ctime
              /\ \A j \in 1..(k - 1) : files[j].ctime < files[k].ctime]

\* what a call does to the files of the folder, in order: download() writing
\* the response to a path, insert_dep_arr writing the procedure lines into it
FileOp(op, path) == [op |-> op, path |-> path]

\* the procedure lines inserted into the file taken from the folder as well
find_or_retrieve_fp_augments_found(ofp) ==
    LET done == [NoRet EXCEPT !.done = TRUE]
        found == MaxCtime(Candidates(ofp.folder))
    IN
    IF ~ofp.icao THEN done
    ELSE IF Len(Candidates(ofp.folder)) > 0
    THEN [done EXCEPT !.file = found.stem,
                      !.ops = IF ofp.procs
                              THEN <<FileOp("insert", Append(found.stem, found.suffix))>>
                              ELSE <<>>]
    ELSE LET file == <<Origin, Destination, ".fms">> IN
         IF ofp.download # "ok"
         THEN [done EXCEPT !.target = file]
         ELSE [done EXCEPT !.target = file, !.file = SubSeq(file, 1, 2),
                           !.ops = <<FileOp("write", file)>>
                                      \o (IF ofp.procs THEN <<FileOp("insert", file)>>
                                          ELSE <<>>)]

\* lines 267-304; download() returns the path when the link answered and the
\* file was written, False otherwise; procs tells whether extract_dep_arr
\* found a line to insert
find_or_retrieve_fp(ofp) ==
    LET done == [NoRet EXCEPT !.done = TRUE] IN
    IF ~ofp.icao THEN done
    ELSE IF Len(Candidates(ofp.folder)) > 0
    THEN [done EXCEPT !.file = MaxCtime(Candidates(ofp.folder)).stem]
    ELSE LET file == <<Origin, Destination, ".fms">> IN
         IF ofp.download # "ok"
         THEN [done EXCEPT !.target = file]
         ELSE [done EXCEPT !.target = file, !.file = SubSeq(file, 1, 2),
                           !.ops = <<FileOp("write", file)>>
                                      \o (IF ofp.procs THEN <<FileOp("insert", file)>>
                                          ELSE <<>>)]

\* the folder on disk: its files, and for each of them how many times
\* insert_dep_arr wrote its lines into the content the file holds
Disk(ofp) == [folder |-> ofp.folder, inserted |-> ofp.inserted]

\* the place of a path in the folder, 0 when no file has it
Position(folder, path) ==
    IF \E k \in 1..Len(folder) : Append(folder[k].stem, folder[k].suffix) = path
    THEN CHOOSE k \in 1..Len(folder) : Append(folder[k].stem, folder[k].suffix) = path
    ELSE 0

\* lines 198-199: open(destination, 'wb') and f.write(response.content); the
\* content of a file already there is replaced by the response, and its
\* st_ctime is the time of the change, or stays the time of creation where
\* the system keeps that one
open_wb(disk, path, keep) ==
    LET k == Position(disk.folder, path) IN
    IF k = 0
    THEN [folder |-> Append(disk.folder,
                            [stem |-> SubSeq(path, 1, Len(path) - 1),
                             suffix |-> path[Len(path)], ctime |-> MaxDay]),
          inserted |-> Append(disk.inserted, 0)]
    ELSE [folder |-> [disk.folder EXCEPT ![k].ctime = IF keep THEN @ ELSE MaxDay],
          inserted |-> [disk.inserted EXCEPT ![k] = 0]]

\* lines 477-493: the lines are inserted into the content the file holds
insert_dep_arr(disk, path) ==
    LET k == Position(disk.folder, path) IN
    IF k = 0 THEN disk ELSE [disk EXCEPT !.inserted[k] = @ + 1]

\* the disk after the operations of a call
RECURSIVE AfterOps(_, _, _)
AfterOps(disk, ops, keep) ==
    IF Len(ops) = 0 THEN disk
    ELSE AfterOps(IF Head(ops).op = "write"
                  THEN open_wb(disk, Head(ops).path, keep)
                  ELSE insert_dep_arr(disk, Head(ops).path),
                  Tail(ops), keep)

\* the folder some days later, datetime.now() staying the day MaxDay
Aged(folder, days) ==
    [k \in 1..Len(folder) |->
        [folder[k] EXCEPT !.ctime = IF @ > days THEN @ - days ELSE 0]]

IsaLineArgs ==
    {[NoArg EXCEPT !.fn = "create_xml_file", !.dest_isa = n] :
        n \in (0 - MaxDeviation)..MaxDeviation}

Weights ==
    UNION {[1..n -> {DigitChars[d] : d \in 1..10}] : n \in 0..MaxDigits}
        \cup {<<"-", "1", "0", "0">>, <<"+", "7">>, <<" ", "7", " ">>, <<"-">>, <<"7", "k">>}

WeightArgs ==
    {[NoArg EXCEPT !.fn = "weight_transform", !.weight = w, !.unit = u] :
        w \in Weights, u \in {"kgs", "lbs"}}

FolderArgs ==
    {[NoArg EXCEPT !.fn = "find_or_retrieve_fp", !.folder = d, !.icao = i,
                   !.download = o, !.inserted = [k \in 1..Len(d) |-> 0],
                   !.procs = pr] :
        d \in Folders, i \in BOOLEAN, o \in {"ok", "error", "not_written"},
        pr \in BOOLEAN}

CallCreateXml ==
    /\ arg.fn = "create_xml_file" /\ ~ret.done
    /\ ret' = [NoRet EXCEPT !.done = TRUE, !.text = IsaLine(arg)]
    /\ UNCHANGED <<ctl, tasks, dvars, settled, blocked, arg>>

CallWeightTransform ==
    /\ arg.fn = "weight_transform" /\ ~ret.done
    /\ ret' = weight_transform(arg.weight, arg.unit)
    /\ UNCHANGED <<ctl, tasks, dvars, settled, blocked, arg>>

CallFindFp ==
    /\ arg.fn = "find_or_retrieve_fp" /\ ~ret.done
    /\ ret' = find_or_retrieve_fp(arg)
    /\ UNCHANGED <<ctl, tasks, dvars, settled, blocked, arg>>

\* the next acquisition cycle reaches line 217, the same day or DAYS later,
\* with the folder as the cycle before left it
NextCycle ==
    /\ arg.fn = "find_or_retrieve_fp" /\ ret.done
    /\ \E keep \in BOOLEAN, days \in {0, DAYS}, i \in BOOLEAN,
          o \in {"ok", "error", "not_written"}, pr \in BOOLEAN :
          LET disk == AfterOps(Disk(arg), ret.ops, keep) IN
          arg' = [arg EXCEPT !.folder = Aged(disk.folder, days),
                             !.inserted = disk.inserted,
                             !.icao = i, !.download = o, !.procs = pr]
    /\ ret' = NoRet
    /\ UNCHANGED <<ctl, tasks, dvars, settled, blocked>>

----------------------------------------------------------------------------
(* The system *)

CtlInit ==
    /\ acf_path = "None"
    /\ aircraft = "False"
    /\ pilot_id \in {0} \cup PilotIds
    /\ async_task = 0
    /\ request_id = NoneRid
    /\ fp_info = NoInfo
    /\ flight_started = FALSE
    /\ fp_checked = FALSE
    /\ details_message = ""
    /\ loop_schedule = DEFAULT_SCHEDULE
    /\ details = FALSE
    /\ tasks = [i \in ThreadIds |-> FreeThread]
    /\ datis = FALSE
    /\ datis_request = "False"
    /\ async_datis = 0
    /\ datis_message = NoDatisMessage
    /\ datis_content = "none"
    /\ datis_tasks = [i \in ThreadIds |-> FreeThread]
    /\ settled = FALSE
    /\ blocked = FALSE

Init ==
    /\ CtlInit
    /\ arg = NoArg
    /\ ret = NoRet

\* the at_gate readings a tick can take
Gates == {at_gate(s) : s \in Snapshots}

Tick == \E p \in AcfPaths, gate \in Gates : loopCallback(p, gate)

Worker == \E i \in ThreadIds : WorkerHttps(i) \/ WorkerHttp(i)

Widget ==
    \E b \in {"save", "edit", "reload", "other"}, u \in PilotInputs, p \in AcfPaths :
        detailsWidgetHandler(b, u, p)

Reload == \E p \in AcfPaths : OFPReload(p)

Next ==
    \/ Tick
    \/ Worker
    \/ create_details_window
    \/ Widget
    \/ Reload

Spec == Init /\ [][Next]_vars

\* the D-ATIS widget beside the acquisition cycle
AtisWorker == \E i \in ThreadIds : AtisHttps(i) \/ AtisHttp(i)

DatisWidget ==
    \E b \in {"other", "ORIG", "DEST"}, p \in AcfPaths : datisWidgetHandler(b, p)

DatisInit ==
    /\ Init
    /\ pilot_id = 1

DatisNext ==
    \/ Tick
    \/ Worker
    \/ create_datis_window
    \/ DatisWidget
    \/ AtisWorker

DatisSpec == DatisInit /\ [][DatisNext]_vars

\* the acquisition cycle with an environment that settles: from then on the
\* ticks read a supported aircraft at the gate and every SimBrief call succeeds
\* with a new OFP; the flight loop keeps being called and no worker hangs
Settle ==
    /\ ~settled
    /\ settled' = TRUE
    /\ UNCHANGED <<ctl, tasks, dvars, blocked, pvars>>

LiveTick ==
    \E p \in AcfPaths, gate \in Gates :
        /\ settled => (AIRCRAFTS(p) # "False" /\ gate)
        /\ loopCallback(p, gate)

LiveNext ==
    \/ LiveTick
    \/ Worker
    \/ Reload
    \/ Settle

LiveSpec ==
    /\ Init
    /\ [][LiveNext]_vars
    /\ WF_vars(LiveTick)
    /\ WF_vars(Worker)

\* the functions called on their own, on every argument within the bounds
PureInit ==
    /\ CtlInit
    /\ pilot_id = 0
    /\ \/ arg \in AtGateArgs
       \/ arg \in WindArgs
       \/ arg \in IsaArgs
       \/ arg \in IsaLineArgs
       \/ arg \in WeightArgs
       \/ arg \in FolderArgs
    /\ ret = NoRet

PureNext ==
    \/ CallAtGate
    \/ CallParseOfp
    \/ CallCreateXml
    \/ CallWeightTransform
    \/ CallFindFp
    \/ NextCycle

PureSpec == PureInit /\ [][PureNext]_vars

----------------------------------------------------------------------------
(* Steps of the control thread, as seen from outside *)

\* this step starts an acquisition task
TaskStarted == \E i \in ThreadIds : tasks[i].pc = "free" /\ tasks'[i].pc # "free"

\* this step releases the held acquisition task
TaskReleased == async_task # 0 /\ async_task' = 0

\* the tick reaches lines 1158-1196 with the readings p, gate
ChecksFp(p, gate) == Configured(p) /\ ~flight_started /\ CheckFp(gate)

\* the tick finds the held task still pending (line 1185)
PendingTick ==
    \E p \in AcfPaths, gate \in Gates :
        loopCallback(p, gate) /\ ChecksFp(p, gate) /\ TaskHeld /\ ~JobEnded

\* the D-ATIS handler finds the held task still pending (line 958)
PendingDatis ==
    \E b \in {"other", "ORIG", "DEST"}, p \in AcfPaths :
        /\ datisWidgetHandler(b, p)
        /\ aircraft_detected(p) /\ fp_info # NoInfo /\ datis_request # "False"
        /\ DatisHeld /\ ~DatisEnded

\* C1: in every reachable state at most one acquisition task exists, and it is the
\* one the controller holds; a task is started only by a step that finds
\* async_task empty, and released only by a step that finds it finished
C1_AtMostOneTask ==
    /\ [](/\ Cardinality({i \in ThreadIds : tasks[i].pc # "free"}) <= 1
          /\ \A i \in ThreadIds : tasks[i].pc # "free" => async_task = i)
    /\ [][TaskStarted => async_task = 0]_vars
    /\ [][TaskReleased => tasks[async_task].pc = "done"]_vars

\* a second task is held and has finished, after a first one was joined and released
C1_Witness ==
    /\ async_task # 0
    /\ tasks[async_task].pc = "done"
    /\ tasks[async_task].rid # NoneRid

\* C2: a task is started only by a tick that reads a supported aircraft, a pilot
\* id, no flight started, the OFP not checked, and at gate
C2_StartOnlyWhenEligible ==
    [][TaskStarted =>
         /\ \E p \in AcfPaths, gate \in Gates : loopCallback(p, gate)
         /\ \A p \in AcfPaths, gate \in Gates :
               loopCallback(p, gate) =>
                  /\ AIRCRAFTS(p) # "False"
                  /\ pilot_id # 0
                  /\ ~flight_started
                  /\ ~fp_checked
                  /\ gate]_vars

\* a task was started after an OFP had been accepted and a reload requested
C2_Witness ==
    /\ async_task # 0
    /\ details_message = "starting SimBrief query ..."
    /\ fp_info # NoInfo

\* C3 as stated: no join() on a live thread, and a callback that finds its task
\* pending changes nothing
C3_Original ==
    [][/\ ~blocked'
       /\ PendingTick => UNCHANGED <<ctl, tasks>>
       /\ PendingDatis =>
             UNCHANGED <<ctl, tasks, datis, async_datis, datis_message,
                         datis_content, datis_tasks>>]_vars

\* C3 amended: no join() on a live thread, and a callback that finds its task
\* pending leaves the task, the phase flags, the request id, the trip info and
\* the interval as they were (the aircraft refresh at its top may have written
\* acf_path, aircraft and the message)
C3_NeverBlocks ==
    [][/\ ~blocked'
       /\ PendingTick =>
             UNCHANGED <<pilot_id, async_task, request_id, fp_info, flight_started,
                         fp_checked, loop_schedule, details, tasks>>
       /\ PendingDatis =>
             UNCHANGED <<async_datis, datis_message, datis_content, datis_tasks,
                         pilot_id, async_task, request_id, fp_info, flight_started,
                         fp_checked, loop_schedule, tasks>>]_vars

\* an acquisition task and a D-ATIS task have both been joined
C3_Witness ==
    /\ ~blocked
    /\ fp_checked /\ async_task = 0
    /\ datis_content # "none" /\ async_datis = 0

\* the result the held task left
HeldResult == tasks[async_task].result

SameRequestId(t) == t.doc.rid # NoneRid /\ t.doc.rid = t.rid

\* C5: a task that finds the request id it was started with in the response ends
\* with no error, no fp_info, that request id and "No new OFP available", having
\* made no filesystem operation, every time
C5_SameRequestIdShortCircuits ==
    \A i \in ThreadIds :
        SameRequestId(tasks[i]) =>
           /\ tasks[i].pc = "done"
           /\ tasks[i].result =
                 DictResult("none", tasks[i].rid, "No new OFP available", NoInfo)
           /\ tasks[i].fs_ops = {}

\* a task has met the request id it was started with
C5_Witness ==
    \E i \in ThreadIds : SameRequestId(tasks[i]) /\ tasks[i].pc = "done"

\* download() returned False (lines 193, 202)
RetrievalFailed(t) ==
    /\ t.pc = "done"
    /\ t.result.kind = "dict"
    /\ t.result.message \in {"Error downloading fms file from SimBrief",
                             "Error writing FP file"}

\* C6: a failed route-file retrieval ends the cycle with an error outcome and the
\* old request id, parse_ofp and create_xml_file not run; the tick that joins it
\* leaves fp_checked, request_id and fp_info alone and releases the task, and a
\* tick that checks the OFP with no task held starts one
C6_RetrievalFailureStopsCycle ==
    /\ [](\A i \in ThreadIds :
             RetrievalFailed(tasks[i]) =>
                /\ tasks[i].result.error # "none"
                /\ tasks[i].result.fp_info = NoInfo
                /\ tasks[i].result.request_id = tasks[i].rid
                /\ tasks[i].coroute_filename = "None"
                /\ "write_xml" \notin tasks[i].fs_ops)
    /\ [][\A i \in ThreadIds :
             (tasks[i].pc \in {"dl_https", "dl_http"} /\ tasks'[i].pc = "done"
                /\ "write_fms" \notin tasks'[i].fs_ops) =>
                (RetrievalFailed(tasks'[i]) \/ tasks'[i].result.kind = "exc")]_vars
    /\ [][\A p \in AcfPaths, gate \in Gates :
             (/\ loopCallback(p, gate) /\ ChecksFp(p, gate)
              /\ TaskHeld /\ RetrievalFailed(tasks[async_task])) =>
                /\ UNCHANGED <<request_id, fp_info, fp_checked>>
                /\ async_task' = 0]_vars
    /\ [][\A p \in AcfPaths, gate \in Gates :
             (loopCallback(p, gate) /\ ChecksFp(p, gate) /\ ~TaskHeld) =>
                /\ async_task' # 0
                /\ tasks'[async_task'].pc = "query_https"]_vars

\* a failed retrieval was joined: the task is released and the OFP is not checked
C6_Witness ==
    /\ async_task = 0
    /\ ~fp_checked
    /\ details_message \in {"Error downloading fms file from SimBrief",
                            "Error writing FP file"}

\* C7: a finished task always left a result, an exception included; the tick that
\* joins an exception shows "An unknown error occurred", which no result dict
\* carries, leaves fp_checked, request_id and fp_info alone and releases the task
C7_ExceptionContained ==
    /\ [](\A i \in ThreadIds :
             tasks[i].pc = "done" =>
                /\ tasks[i].result.kind \in {"exc", "dict"}
                /\ tasks[i].result.message # "An unknown error occurred")
    /\ [][\A p \in AcfPaths, gate \in Gates :
             (/\ loopCallback(p, gate) /\ ChecksFp(p, gate)
              /\ TaskHeld /\ JobEnded /\ HeldResult.kind = "exc") =>
                /\ details_message' = "An unknown error occurred"
                /\ UNCHANGED <<request_id, fp_info, fp_checked>>
                /\ async_task' = 0]_vars

\* an exception of a task was joined
C7_Witness ==
    /\ details_message = "An unknown error occurred"
    /\ async_task = 0

\* how far SimBrief.run has come
Stage(pc) ==
    CASE pc = "query_https" -> 1
      [] pc = "query_http" -> 2
      [] pc = "dl_https" -> 3
      [] pc = "dl_http" -> 4
      [] pc = "done" -> 5
      [] OTHER -> 0

C9_EveryCallHasTimeout ==
    /\ \A i \in ThreadIds : pending(tasks[i]) => tasks[i].timeout > 0
    /\ \A i \in ThreadIds : pending(datis_tasks[i]) => datis_tasks[i].timeout > 0

TurnaroundTick(p, gate) == loopCallback(p, gate) /\ Configured(p) /\ flight_started /\ gate

\* C11 as stated: the turnaround tick clears flight_started and fp_checked,
\* empties fp_info and returns the base interval, and the eligible tick that
\* follows it starts an acquisition
C11_Turnaround ==
    /\ [][\A p \in AcfPaths, gate \in Gates :
             TurnaroundTick(p, gate) =>
                /\ ~flight_started' /\ ~fp_checked' /\ fp_info' = NoInfo
                /\ loop_schedule' = DEFAULT_SCHEDULE
                /\ ~TaskStarted]_vars
    /\ [][\A p \in AcfPaths, gate \in Gates :
             (/\ details_message = "Looking for a new OFP ..."
              /\ loopCallback(p, gate) /\ ChecksFp(p, gate)) => TaskStarted]_vars

\* what one call of loopCallback did
Started == \E i \in ThreadIds : tasks'[i].pc = "query_https" /\ tasks[i].pc # "query_https"
Joined == async_task # 0 /\ tasks[async_task].pc = "done" /\ tasks'[async_task].pc # "done"
FlightMarked == ~flight_started /\ flight_started'
TurnedAround == flight_started /\ ~flight_started'
Transitions ==
    {e \in {"start", "join", "flight", "turnaround"} :
        \/ e = "start" /\ Started
        \/ e = "join" /\ Joined
        \/ e = "flight" /\ FlightMarked
        \/ e = "turnaround" /\ TurnedAround}

\* C12: one call of loopCallback does at most one of: start a task, join a task,
\* mark the flight started, reset for the turnaround
C12_OneTransitionPerTick ==
    [][\A p \in AcfPaths, gate \in Gates :
          loopCallback(p, gate) => Cardinality(Transitions) <= 1]_vars

\* a task was joined and the next one started by a later tick
C12_Witness ==
    /\ async_task # 0
    /\ request_id # NoneRid
    /\ details_message = "starting SimBrief query ..."
    /\ ~flight_started

\* the thread i, running SimBrief.run, moves on
WorkerStep(i) == pending(tasks[i]) /\ tasks'[i] # tasks[i]

\* C14: a step of a worker thread changes its own Async object and no field of
\* the controller; a result a worker left reaches request_id, fp_info and
\* fp_checked only in the step that joins and releases its task
C14_WorkerWritesNoControllerField ==
    /\ [][\A i \in ThreadIds :
             WorkerStep(i) =>
                /\ UNCHANGED <<ctl, dvars>>
                /\ \A j \in ThreadIds \ {i} : tasks'[j] = tasks[j]]_vars
    /\ [][\A i \in ThreadIds :
             (/\ tasks[i].result.kind = "dict"
              /\ tasks[i].result.fp_info # NoInfo
              /\ fp_info' = tasks[i].result.fp_info
              /\ fp_info # fp_info') => (async_task = i /\ TaskReleased)]_vars

\* a worker has a new OFP ready and the controller does not have it yet
C14_Witness ==
    \E i \in ThreadIds :
        /\ tasks[i].pc = "done"
        /\ tasks[i].result.fp_info # NoInfo
        /\ fp_info = NoInfo /\ request_id = NoneRid /\ ~fp_checked
        /\ details_message = "starting SimBrief query ..."

\* C15 as stated: flight_started, fp_checked and the held task change only in
\* loopCallback
C15_PhaseChangesOnlyInTick ==
    [][(flight_started' # flight_started \/ fp_checked' # fp_checked
          \/ async_task' # async_task) =>
          \E p \in AcfPaths, gate \in Gates : loopCallback(p, gate)]_vars

\* C16: a started Async is pending until it finishes and never again after; once
\* it is not pending its result is what the task returned or the exception it
\* raised
C16_PendingUntilFinished ==
    /\ [](\A i \in ThreadIds :
             /\ (tasks[i].pc # "free" /\ ~pending(tasks[i])) =>
                   tasks[i].result.kind \in {"exc", "dict"}
             /\ (datis_tasks[i].pc # "free" /\ ~pending(datis_tasks[i])) =>
                   datis_tasks[i].result.kind \in {"exc", "dict"}
             /\ pending(tasks[i]) => tasks[i].result = NoResult
             /\ pending(datis_tasks[i]) => datis_tasks[i].result = NoResult)
    /\ [][\A i \in ThreadIds :
             /\ (tasks[i].pc # "free" /\ ~pending(tasks[i])) =>
                   (tasks'[i] = tasks[i] \/ tasks'[i] = FreeThread)
             /\ (datis_tasks[i].pc # "free" /\ ~pending(datis_tasks[i])) =>
                   (datis_tasks'[i] = datis_tasks[i] \/ datis_tasks'[i] = FreeThread)
             /\ pending(tasks[i]) => tasks'[i].pc # "free"
             /\ pending(datis_tasks[i]) => datis_tasks'[i].pc # "free"]_vars

\* an acquisition task and a D-ATIS task have finished and are not joined yet
C16_Witness ==
    /\ async_task # 0 /\ tasks[async_task].pc = "done"
    /\ async_datis # 0 /\ datis_tasks[async_datis].pc = "done"

\* C18 as stated: a task whose document makes parse_ofp fail ends with an error
\* and a message in its result dict
C18_ParseErrorIsData ==
    [][\A i \in ThreadIds :
          (/\ tasks[i].doc.kind = "parse_err"
           /\ tasks'[i].pc = "done"
           /\ "augment" \in tasks'[i].fs_ops) =>
             /\ tasks'[i].result.kind = "dict"
             /\ tasks'[i].result.error # "none"
             /\ tasks'[i].result.message # "None"]_vars

\* C13: at_gate is true exactly when some gear reads on ground and no engine
\* reads burning fuel
C13_AtGate ==
    (ret.done /\ arg.fn = "at_gate") =>
        (ret.at_gate <=>
            /\ \E g \in Gears : arg.snapshot.gears[g]
            /\ \A e \in Engines : ~arg.snapshot.engines[e])

\* at gate with the nose gear reading airborne and the engines off
C13_Witness ==
    /\ ret.done /\ arg.fn = "at_gate"
    /\ arg.snapshot.gears = [g \in Gears |-> g # 1]
    /\ \A e \in Engines : ~arg.snapshot.engines[e]
    /\ ret.at_gate

\* the tag belongs to one of the five families
Matched(layout) ==
    \/ FamilyA(layout)
    \/ \E name \in {"UAL 2018", "DAL", "SWA", "KLM"} : IsLayout(layout, name)

\* C17 as stated: with a tag of one of the five families, parse_ofp fails when
\* the body lacks the heading or the sentinel of the family
C17_MissingMarkerFails ==
    (/\ ret.done /\ arg.fn = "parse_ofp" /\ Matched(arg.layout)
     /\ (~Contains(arg.body, "head") \/ ~Contains(arg.body, "end"))) => ret.raised

\* C19: a tag that holds none of the four codes and is none of the four names
\* gives five empty entries whatever the body is; a tag that holds one of the
\* codes gives what lies between the heading and the sentinel, and fails only
\* without the heading
C19_DispatchClosed ==
    (ret.done /\ arg.fn = "parse_ofp" /\ arg \in WindArgs) =>
        /\ (/\ \A k \in 1..Len(arg.layout) : arg.layout[k] \notin Carriers
            /\ arg.layout \notin {<<"UAL 2018">>, <<"DAL">>, <<"SWA">>, <<"KLM">>}) =>
              (~ret.raised /\ ret.winds = NoWinds)
        /\ (\E k \in 1..Len(arg.layout) : arg.layout[k] \in Carriers) =>
              IF Contains(arg.body, "head")
              THEN ~ret.raised
                   /\ ret.winds = SplitFirst(SplitSecond(arg.body, "head"), "end")
              ELSE ret.raised

\* a tag that merely holds the name DAL, with a body that has the markers
C19_Witness ==
    /\ ret.done /\ arg.fn = "parse_ofp"
    /\ arg.layout = <<"DAL", "AAL">>
    /\ arg.body = <<"head", "fl100", "end">>
    /\ ret.winds = NoWinds

\* C20: dest_isa is the deviation of the last fix when that fix is the
\* destination, and the average deviation otherwise
C20_DestIsa ==
    (ret.done /\ arg.fn = "parse_ofp" /\ ~ret.raised) =>
        LET last == arg.navlog[Len(arg.navlog)] IN
        ret.dest_isa = IF last.ident = "dest"
                       THEN int(last.oat_isa_dev)
                       ELSE int(arg.avg_temp_dev)

\* the destination comes first in the log, another fix last: the average is used
C20_Witness ==
    /\ ret.done /\ arg.fn = "parse_ofp" /\ ~ret.raised
    /\ Len(arg.navlog) = 2
    /\ arg.navlog[1].ident = "dest" /\ int(arg.navlog[1].oat_isa_dev) = -1
    /\ arg.navlog[2].ident = "wpt" /\ int(arg.navlog[2].oat_isa_dev) = 0
    /\ int(arg.avg_temp_dev) = 1
    /\ ret.dest_isa = 1

\* C21: the ISA line of the artifact is the label AVG ISA, then P for a
\* destination deviation of zero or more and M for a negative one, then the
\* magnitude in three digits with leading zeros, for every deviation of a
\* magnitude below 1000; -4 gives M004, 0 gives P000 and 12 gives P012
C21_IsaLine ==
    (ret.done /\ arg.fn = "create_xml_file"
        /\ arg.dest_isa > 0 - 1000 /\ arg.dest_isa < 1000) =>
        LET n == IF arg.dest_isa < 0 THEN 0 - arg.dest_isa ELSE arg.dest_isa
            code == <<IF arg.dest_isa >= 0 THEN "P" ELSE "M",
                      DigitChars[(n \div 100) + 1],
                      DigitChars[((n \div 10) % 10) + 1],
                      DigitChars[(n % 10) + 1]>>
        IN /\ ret.text = <<"AVG ISA       ">> \o code \o <<"\n\n">>
           /\ arg.dest_isa = 0 - 4 => code = <<"M", "0", "0", "4">>
           /\ arg.dest_isa = 0 => code = <<"P", "0", "0", "0">>
           /\ arg.dest_isa = 12 => code = <<"P", "0", "1", "2">>

\* the line written for a deviation of zero
C21_Witness ==
    /\ ret.done /\ arg.fn = "create_xml_file" /\ arg.dest_isa = 0
    /\ ret.text = <<"AVG ISA       ", "P", "0", "0", "0", "\n\n">>

\* C22: when the folder holds a .fms or .fmx file whose name starts with the
\* origin, contains the destination and was created less than DAYS days ago,
\* find_or_retrieve_fp returns the stem of the most recently created of them
\* and asks for no download; when there is none, it asks for a download to
\* <origin><destination>.fms, and returns False when that download fails
C22_RouteFile ==
    (ret.done /\ arg.fn = "find_or_retrieve_fp" /\ arg.icao) =>
        LET d == arg.folder
            match == {k \in 1..Len(d) :
                         /\ d[k].suffix \in {".fms", ".fmx"}
                         /\ d[k].stem[1] = "LIRF"
                         /\ \E j \in 1..Len(d[k].stem) : d[k].stem[j] = "EDDM"
                         /\ MaxDay - d[k].ctime < 2}
        IN IF match # {}
           THEN /\ \E k \in match :
                      /\ \A j \in match : d[j].ctime <= d[k].ctime
                      /\ ret.file = d[k].stem
                /\ ret.target = <<>>
           ELSE /\ ret.target = <<"LIRF", "EDDM", ".fms">>
                /\ ret.file = IF arg.download = "ok" THEN <<"LIRF", "EDDM">> ELSE <<>>

\* two files match, the one listed second being a day younger: it is the one
\* taken, and nothing is downloaded
C22_Witness ==
    /\ ret.done /\ arg.fn = "find_or_retrieve_fp" /\ arg.icao
    /\ Len(arg.folder) = 2
    /\ arg.folder[1] = [stem |-> <<"LIRF", "EDDM">>, suffix |-> ".fms", ctime |-> MaxDay - 1]
    /\ arg.folder[2] = [stem |-> <<"LIRF", "EDDM", "01">>, suffix |-> ".fmx", ctime |-> MaxDay]
    /\ ret.file = <<"LIRF", "EDDM", "01">>
    /\ ret.target = <<>>

\* C25: for a weight written as a non-negative integer, weight_transform gives
\* the integer nearest to the weight times 2.205 followed by " lbs" for the
\* unit kgs, and the integer nearest to the weight times 0.4535 followed by
\* " kgs" for the unit lbs; 1000 kgs gives 2205 lbs and 1000 lbs gives 454 kgs
C25_WeightTransform ==
    (ret.done /\ arg.fn = "weight_transform" /\ isdigit(arg.weight)) =>
        LET w == IntOf(arg.weight)
            k == Len(ret.text) - 2
            digits == SubSeq(ret.text, 1, k)
            n == IntOf(digits)
            off(per2000) == 2000 * n - per2000 * w
        IN /\ ~ret.raised
           /\ k >= 1 /\ isdigit(digits) /\ (k = 1 \/ digits[1] # "0")
           /\ ret.text[k + 1] = " "
           /\ arg.unit = "kgs" =>
                 ret.text[k + 2] = "lbs" /\ off(4410) <= 1000 /\ off(4410) >= 0 - 1000
           /\ arg.unit = "lbs" =>
                 ret.text[k + 2] = "kgs" /\ off(907) <= 1000 /\ off(907) >= 0 - 1000
           /\ (arg.weight = <<"1", "0", "0", "0">> /\ arg.unit = "kgs") =>
                 ret.text = <<"2", "2", "0", "5", " ", "lbs">>
           /\ (arg.weight = <<"1", "0", "0", "0">> /\ arg.unit = "lbs") =>
                 ret.text = <<"4", "5", "4", " ", "kgs">>

\* 1000 lbs, where the product lies halfway between 453 and 454
C25_Witness ==
    /\ ret.done /\ arg.fn = "weight_transform"
    /\ arg.weight = <<"1", "0", "0", "0">> /\ arg.unit = "lbs"
    /\ ret.text = <<"4", "5", "4", " ", "kgs">>

\* the unverified request that stands in for a verified one
Fallback(pc) == IF pc = "query_https" THEN "query_http" ELSE "dl_http"

\* C23: a verified GET that fails with an SSLError is followed by one request
\* of the same resource over http; no other outcome of the verified GET
\* (connection error, status other than 200, another exception) leads to a
\* second request, and a status or a connection outcome ends the task with that
\* error; a fallback request is reached only from its verified GET, is never
\* followed by another request of the same call, and its failure ends the task
\* with an error in the outcome
C23_Fallback ==
    /\ [](\A i \in ThreadIds :
            LET t == tasks[i] IN
            /\ t.pc \in {"query_https", "dl_https"} =>
                 /\ \A t2 \in AfterHttps(t, "ssl") : t2.pc = Fallback(t.pc)
                 /\ \A o \in {"200", "204", "400", "500", "conn", "exc"} :
                       \A t2 \in AfterHttps(t, o) :
                           t2.pc \notin {"query_http", "dl_http", t.pc}
                 /\ \A o \in {"204", "400", "500", "conn"} :
                       \A t2 \in AfterHttps(t, o) :
                           t2.pc = "done" /\ t2.result.kind = "dict" /\ t2.result.error = o
            /\ t.pc \in {"query_http", "dl_http"} =>
                 \A o \in {"200", "500", "timeout"} :
                     \A t2 \in AfterGet(t, get_from_url(o)) :
                         /\ t2.pc \notin {"query_https", "query_http", "dl_http"}
                         /\ o # "200" =>
                               /\ t2.pc = "done" /\ t2.result.kind = "dict"
                               /\ t2.result.error = o)
    /\ [][\A i \in ThreadIds :
             /\ (tasks'[i].pc \in {"query_http", "dl_http"} /\ tasks'[i] # tasks[i]) =>
                   (tasks[i].pc \in {"query_https", "dl_https"}
                       /\ tasks'[i].pc = Fallback(tasks[i].pc))
             /\ (tasks[i].pc \in {"query_http", "dl_http"} /\ tasks'[i] # tasks[i]) =>
                   tasks'[i].pc \in {"done", "dl_https"}]_vars

\* the fallback request of a download is under way
C23_Witness == \E i \in ThreadIds : tasks[i].pc = "dl_http" /\ tasks[i].timeout = HTTP_TIMEOUT

\* C24 as stated: of the answers to the provider query, a status 400 ends the
\* task with the bad-pilot-id message, any other status outside 2xx and any
\* transport error with the connectivity message, the outcome carrying the
\* error and the task having parsed nothing and touched no file; and no status
\* in 2xx is turned into an error
C24_QueryClassification ==
    \A i \in ThreadIds :
        LET t == tasks[i]
            Refused(t2, o, message) ==
                /\ t2.pc = "done" /\ t2.result.kind = "dict"
                /\ t2.result.error = o /\ t2.result.message = message
                /\ t2.result.fp_info = NoInfo
                /\ t2.doc = NoDoc /\ t2.fs_ops = {}
        IN /\ t.pc = "query_https" =>
                /\ \A t2 \in AfterHttps(t, "400") :
                      Refused(t2, "400", "Error: is your pilotID correct?")
                /\ \A o \in {"500", "conn"} : \A t2 \in AfterHttps(t, o) :
                      Refused(t2, o, "Error trying to connect to SimBrief")
                /\ \A o \in {"200", "204"} : \A t2 \in AfterHttps(t, o) :
                      ~(t2.result.kind = "dict" /\ t2.result.error = o)
           /\ t.pc = "query_http" =>
                /\ \A o \in {"500", "timeout"} : \A t2 \in AfterGet(t, get_from_url(o)) :
                      Refused(t2, o, "Error trying to connect to SimBrief")
                /\ \A t2 \in AfterGet(t, get_from_url("200")) :
                      ~(t2.result.kind = "dict" /\ t2.result.error = "200")

\* C26: a reload request (the RELOAD button or the reload command) clears
\* nothing but fp_checked: request_id, fp_info, flight_started, the pilot id
\* and the held task stay as they are; from then on request_id changes only by
\* accepting a new OFP and fp_info only by that or by a turnaround; and the tick
\* that joins a task which met the cached request id, the trip info still
\* cached, sets fp_checked and leaves request_id and fp_info as they are, that
\* task having written nothing
C26_ReloadIdempotent ==
    /\ [][\A p \in AcfPaths, u \in PilotInputs :
             (OFPReload(p) \/ detailsWidgetHandler("reload", u, p)) =>
                /\ fp_checked' => fp_checked
                /\ UNCHANGED <<request_id, fp_info, flight_started, pilot_id,
                               async_task, tasks>>]_vars
    /\ [][/\ request_id' # request_id =>
                (Joined /\ HeldResult.fp_info # NoInfo /\ HeldResult.error = "none")
          /\ fp_info' # fp_info =>
                \/ Joined /\ HeldResult.fp_info # NoInfo /\ HeldResult.error = "none"
                \/ TurnedAround]_vars
    /\ [][\A p \in AcfPaths, gate \in Gates :
             (/\ loopCallback(p, gate) /\ ChecksFp(p, gate)
              /\ async_task # 0 /\ tasks[async_task].pc = "done"
              /\ SameRequestId(tasks[async_task])
              /\ tasks[async_task].rid = request_id
              /\ fp_info # NoInfo) =>
                /\ fp_checked'
                /\ UNCHANGED <<request_id, fp_info>>
                /\ tasks[async_task].fs_ops = {}]_vars
    /\ [](fp_checked => fp_info # NoInfo)

\* after a reload the provider still served the accepted OFP: checked again,
\* with the trip info kept
C26_Witness ==
    /\ fp_checked /\ async_task = 0
    /\ details_message = "No new OFP available"
    /\ fp_info # NoInfo /\ request_id = fp_info.ofp

C28_NoStaleResult ==
    [][\A p \in AcfPaths, gate \in Gates :
          (/\ details_message = "Looking for a new OFP ..."
           /\ loopCallback(p, gate)
           /\ Joined) =>
             (~fp_checked' /\ UNCHANGED <<request_id, fp_info>>)]_vars

\* C29 as stated: whenever fp_checked holds and a pilot id is set, the cached
\* request_id and fp_info are those of an OFP of that pilot, obtained by a task
\* started with that pilot id
C29_CachedOfpOfPilot ==
    (fp_checked /\ pilot_id # 0) =>
        (request_id[1] = pilot_id /\ fp_info.ofp[1] = pilot_id)

\* C30 as stated: fp_checked is set only by a tick that joins a task whose
\* outcome is a new OFP (no error, trip info) or, trip info being cached, the
\* outcome "No new OFP available"; the outcome of a task that met an empty body
\* or a document without origin or destination never sets it
C30_CheckedOnlyByOfp ==
    [][(~fp_checked /\ fp_checked') =>
          /\ Joined
          /\ HeldResult.kind = "dict" /\ HeldResult.error = "none"
          /\ \/ HeldResult.fp_info # NoInfo
             \/ HeldResult.message = "No new OFP available" /\ fp_info # NoInfo]_vars

----------------------------------------------------------------------------
(* Trip info, request id and the checked flag *)

\* C31: in every reachable state of the controller, fp_checked implies that
\* fp_info is non-empty and request_id is set, and a non-empty fp_info implies
\* that request_id is set; a step that clears fp_info leaves fp_checked false,
\* and a step that replaces fp_info takes request_id from the same outcome.
C31_InfoWithRequestId ==
    /\ [](/\ fp_checked => (fp_info # NoInfo /\ request_id # NoneRid)
          /\ fp_info # NoInfo => request_id # NoneRid)
    /\ [][/\ (fp_info # NoInfo /\ fp_info' = NoInfo) => ~fp_checked'
          /\ fp_info' # fp_info /\ fp_info' # NoInfo =>
                /\ async_task # 0
                /\ fp_info' = tasks[async_task].result.fp_info
                /\ request_id' = tasks[async_task].result.request_id
                /\ fp_checked']_vars

\* the cached trip info is checked again by an outcome that carried none
C31_Witness ==
    /\ fp_checked
    /\ fp_info # NoInfo
    /\ request_id # NoneRid
    /\ details_message = "No new OFP available"

----------------------------------------------------------------------------
(* The same OFP after a turnaround *)

\* the controller waits at the gate after a turnaround reset: the trip info is
\* cleared, the request id of the last accepted OFP is still held
AfterTurnaround ==
    ~flight_started /\ ~fp_checked /\ fp_info = NoInfo /\ request_id # NoneRid

\* C32: the turnaround reset leaves request_id unchanged; after it, a tick that
\* joins a task whose response carried that request id accepts nothing
\* (fp_checked stays false, fp_info stays empty, request_id stays, the task
\* wrote no file) and releases the task, and a tick that checks the OFP with no
\* task held starts a new query with that same request id
C32_SameOfpAfterTurnaround ==
    /\ [][\A p \in AcfPaths, gate \in Gates :
             TurnaroundTick(p, gate) =>
                (request_id' = request_id /\ ~fp_checked' /\ fp_info' = NoInfo)]_vars
    /\ [][\A p \in AcfPaths, gate \in Gates :
             (/\ AfterTurnaround
              /\ loopCallback(p, gate) /\ ChecksFp(p, gate)
              /\ async_task # 0
              /\ tasks[async_task].rid = request_id
              /\ SameRequestId(tasks[async_task])) =>
                /\ tasks[async_task].fs_ops = {}
                /\ ~fp_checked' /\ fp_info' = NoInfo /\ request_id' = request_id
                /\ details_message' = "No new OFP available"
                /\ async_task' = 0]_vars
    /\ [][\A p \in AcfPaths, gate \in Gates :
             (/\ AfterTurnaround
              /\ loopCallback(p, gate) /\ ChecksFp(p, gate)
              /\ async_task = 0) =>
                /\ TaskStarted
                /\ async_task' # 0
                /\ tasks'[async_task'].pc = "query_https"
                /\ tasks'[async_task'].rid = request_id
                /\ request_id' = request_id]_vars

\* after a turnaround the provider returned the OFP already accepted: nothing
\* was accepted and the task was released
C32_Witness ==
    /\ AfterTurnaround
    /\ details_message = "No new OFP available"
    /\ async_task = 0

----------------------------------------------------------------------------
(* The interval of a tick in flight *)

\* C33 as stated: a tick that finds the flight started, the aircraft supported,
\* a pilot id set and the sensors reading not-at-gate returns an interval of at
\* least 10 times DEFAULT_SCHEDULE, whatever ticks and widget events came before
C33_EnRouteInterval ==
    [][\A p \in AcfPaths, gate \in Gates :
          (/\ loopCallback(p, gate)
           /\ check_aircraft(p).aircraft # "False" /\ pilot_id # 0
           /\ flight_started /\ ~gate) =>
             loop_schedule' >= 10 * DEFAULT_SCHEDULE]_vars

----------------------------------------------------------------------------
(* The D-ATIS header and the task it came from *)

\* C34 as stated: at most one D-ATIS task is outstanding at a time, and while
\* D-ATIS content is displayed under the header "<time>Z - <ICAO> D-ATIS:", the
\* ICAO of the header is the ICAO the task that gave the content was started
\* with, whichever button was pressed while the task was pending
C34_DatisHeaderIcao ==
    /\ Cardinality({i \in ThreadIds : datis_tasks[i].pc # "free"}) <= 1
    /\ (datis_content # "none" /\ datis_message.text = "D-ATIS:") =>
          datis_message.icao = datis_content

----------------------------------------------------------------------------
(* The files route resolution touches *)

\* C35: a call of find_or_retrieve_fp that takes a recent file of the folder
\* writes to no file; the procedure lines are inserted only into the path the
\* same call has just written the download to, once, so the content a file
\* of the folder had before the call never receives them, and over any
\* sequence of acquisition cycles no file holds lines inserted more than once
C35_RouteFilesUntouched ==
    arg.fn = "find_or_retrieve_fp" =>
        /\ Len(arg.inserted) = Len(arg.folder)
        /\ \A k \in 1..Len(arg.folder) : arg.inserted[k] <= 1
        /\ ret.done =>
              /\ (arg.icao /\ \E k \in 1..Len(arg.folder) :
                                /\ arg.folder[k].suffix \in {".fms", ".fmx"}
                                /\ arg.folder[k].stem[1] = "LIRF"
                                /\ \E j \in 1..Len(arg.folder[k].stem) :
                                       arg.folder[k].stem[j] = "EDDM"
                                /\ MaxDay - arg.folder[k].ctime < 2) =>
                    (ret.ops = <<>> /\ ret.target = <<>> /\ ret.file # <<>>)
              /\ \A n \in 1..Len(ret.ops) :
                    ret.ops[n].op = "insert" =>
                       /\ n = 2 /\ Len(ret.ops) = 2
                       /\ ret.ops[1] = [op |-> "write", path |-> ret.ops[n].path]
                       /\ ret.ops[n].path = ret.target
              /\ \A n \in 1..Len(ret.ops) :
                    ret.ops[n].op = "write" => (n = 1 /\ ret.ops[n].path = ret.target)

\* the file an earlier cycle downloaded and wrote the procedure lines into is
\* the recent file this cycle takes, with procedure lines to insert at hand:
\* nothing is written
C35_Witness ==
    /\ arg.fn = "find_or_retrieve_fp" /\ ret.done /\ arg.icao /\ arg.procs
    /\ \E k \in 1..Len(arg.folder) :
          /\ arg.inserted[k] = 1
          /\ arg.folder[k].ctime = MaxDay
          /\ ret.file = arg.folder[k].stem
    /\ ret.ops = <<>>

============================================================================
